---- MODULE Spec2Model ----
(***************************************************************************)
(* Progressive lot size and adjusted loss support calculator (src/app.py). *)
(*                                                                         *)
(* The script computes with Python floats.  A float is modelled as the     *)
(* IEEE 754 binary64 value it is: a sign, an odd integer mantissa and a    *)
(* binary exponent (or an infinity, or not-a-number), and every operation  *)
(* of the script rounds its exact result to the nearest such value, ties   *)
(* to even, as the hardware does.  Mantissas and the integers met while    *)
(* rounding are kept as sequences of 15-bit limbs, least significant limb  *)
(* first.  The sidebar inputs are given in cents and converted to the      *)
(* float nearest to the amount in dollars.                                 *)
(***************************************************************************)
EXTENDS Integers, Sequences, FiniteSets, TLC

(***************************************************************************)
(* Natural numbers of any size: <<>> is 0, no leading zero limb.  Carries  *)
(* and borrows are found by looking back over the limbs below, so that no  *)
(* operator recurses along the length of a number.                         *)
(***************************************************************************)
RECURSIVE NatFromInt(_)
NatFromInt(i) ==
    IF i = 0 THEN <<>> ELSE <<i % 32768>> \o NatFromInt(i \div 32768)

Limb(a, i) == IF 1 <= i /\ i <= Len(a) THEN a[i] ELSE 0

\* a without its leading zero limbs
NatStrip(a) ==
    LET m == Len(a)
        z == CHOOSE z \in 0..m :
                /\ z = m \/ a[m - z] # 0
                /\ \A y \in 0..(z - 1) : a[m - y] = 0
    IN  SubSeq(a, 1, m - z)

\* -1, 0 or 1 as a < b, a = b or a > b
NatCmp(a, b) ==
    IF Len(a) < Len(b) THEN -1
    ELSE IF Len(a) > Len(b) THEN 1
    ELSE LET m == Len(a)
             z == CHOOSE z \in 0..m :
                     /\ z = m \/ a[m - z] # b[m - z]
                     /\ \A y \in 0..(z - 1) : a[m - y] = b[m - y]
         IN  IF z = m THEN 0
             ELSE IF a[m - z] < b[m - z] THEN -1 ELSE 1

\* The number whose limbs are the entries of s, each below 2 * 32768 and the
\* last one 0: the carries are propagated
NatCarried(s) ==
    LET m == Len(s)
        carry(i) ==
           /\ i > 1
           /\ \/ s[i - 1] >= 32768
              \/ /\ s[i - 1] = 32767
                 /\ \E d \in 2..(i - 1) :
                       /\ s[i - d] >= 32768
                       /\ \A j \in (i - d + 1)..(i - 2) : s[j] = 32767
    IN  NatStrip(SubSeq([i \in 1..m |-> (s[i] + (IF carry(i) THEN 1 ELSE 0)) % 32768],
                        1, m))

NatAdd(a, b) ==
    LET m == (IF Len(a) >= Len(b) THEN Len(a) ELSE Len(b)) + 1
    IN  NatCarried(SubSeq([i \in 1..m |-> Limb(a, i) + Limb(b, i)], 1, m))

\* a - b for a >= b
NatSub(a, b) ==
    LET m == Len(a)
        d == SubSeq([i \in 1..m |-> a[i] - Limb(b, i)], 1, m)
        borrow(i) ==
           /\ i > 1
           /\ \/ d[i - 1] < 0
              \/ /\ d[i - 1] = 0
                 /\ \E e \in 2..(i - 1) :
                       /\ d[i - e] < 0
                       /\ \A j \in (i - e + 1)..(i - 2) : d[j] = 0
    IN  NatStrip(SubSeq([i \in 1..m |-> (d[i] - (IF borrow(i) THEN 1 ELSE 0)) % 32768],
                        1, m))

\* a * m for one limb m
NatMulLimb(a, m) ==
    IF m = 0 \/ a = <<>> THEN <<>>
    ELSE LET len == Len(a) + 1
         IN  NatCarried(SubSeq([i \in 1..len |->
                                   ((Limb(a, i) * m) % 32768)
                                      + ((Limb(a, i - 1) * m) \div 32768)],
                               1, len))

\* a * 32768^z
NatShift(a, z) == IF a = <<>> THEN a ELSE SubSeq([i \in 1..z |-> 0], 1, z) \o a

\* The sum over i .. Len(a) of the low halves (hi = 0) or the high halves
\* (hi = 1) of the limb products a[i] * b[c + 1 - i]
RECURSIVE NatMulColumn(_, _, _, _, _)
NatMulColumn(a, b, c, i, hi) ==
    IF i > Len(a) \/ i > c THEN 0
    ELSE (IF hi = 1 THEN (a[i] * Limb(b, c + 1 - i)) \div 32768
                    ELSE (a[i] * Limb(b, c + 1 - i)) % 32768)
            + NatMulColumn(a, b, c, i + 1, hi)

\* a * b for Len(a) <= Len(b): the limb products are summed column by
\* column, in halves that stay below 2^31, and the carries propagated
NatMulShort(a, b) ==
    LET m  == Len(a) + Len(b) + 1
        lo == SubSeq([c \in 1..m |-> NatMulColumn(a, b, c, 1, 0)], 1, m)
        hi == SubSeq([c \in 1..m |-> NatMulColumn(a, b, c, 1, 1)], 1, m)
        x  == SubSeq([c \in 1..m |-> (lo[c] % 32768)
                                        + (IF c > 2 THEN hi[c - 2] \div 32768 ELSE 0)],
                     1, m)
        y  == SubSeq([c \in 1..m |-> (IF c > 1 THEN (lo[c - 1] \div 32768)
                                                        + (hi[c - 1] % 32768)
                                                ELSE 0)],
                     1, m)
    IN  NatAdd(NatCarried(x), NatCarried(y))

NatMul(a, b) ==
    IF a = <<>> \/ b = <<>> THEN <<>>
    ELSE IF Len(a) <= Len(b) THEN NatMulShort(a, b) ELSE NatMulShort(b, a)

\* The limbs pos .. 1 of floor(r / d), most significant first, for
\* r < d * 32768^pos and d with a top limb of at least 16384: the two top
\* limbs of r over the top limb of d give the limb or at most 2 more
RECURSIVE NatDivFrom(_, _, _)
NatDivFrom(r, d, pos) ==
    IF pos = 0 THEN <<>>
    ELSE LET x       == NatShift(d, pos - 1)
             top     == Limb(r, Len(x) + 1) * 32768 + Limb(r, Len(x))
             est     == IF top \div d[Len(d)] > 32767 THEN 32767
                        ELSE top \div d[Len(d)]
             fits(t) == NatCmp(NatMulLimb(x, t), r) <= 0
             digit   == IF fits(est) THEN est
                        ELSE IF fits(est - 1) THEN est - 1 ELSE est - 2
         IN  <<digit>> \o NatDivFrom(NatSub(r, NatMulLimb(x, digit)), d, pos - 1)

\* floor(a / d) for d > 0: both are first scaled to bring the top limb of d
\* to 16384 or more
NatDiv(a, d) ==
    LET top == d[Len(d)]
        s   == CHOOSE s \in 0..14 : 16384 <= top * 2^s /\ top * 2^s < 32768
        an  == NatMulLimb(a, 2^s)
        dn  == NatMulLimb(d, 2^s)
        len == Len(an) - Len(dn) + 1
        q   == NatDivFrom(an, dn, len)
    IN  IF len <= 0 THEN <<>>
        ELSE NatStrip(SubSeq([i \in 1..len |-> q[len + 1 - i]], 1, len))

RECURSIVE NatToIntFrom(_, _)
NatToIntFrom(a, i) ==
    IF i > Len(a) THEN 0 ELSE a[i] + 32768 * NatToIntFrom(a, i + 1)

\* the value as a plain integer, for values below 2^31
NatToInt(a) == NatToIntFrom(a, 1)

\* The number of bits of a: 0 for 0
NatBitLen(a) ==
    IF a = <<>> THEN 0
    ELSE 15 * (Len(a) - 1)
            + (CHOOSE b \in 1..15 : 2^(b - 1) <= a[Len(a)] /\ a[Len(a)] < 2^b)

\* Bit i of a, the lowest being bit 0
NatBit(a, i) == (Limb(a, (i \div 15) + 1) \div 2^(i % 15)) % 2

\* Bits 0 .. s - 1 of a are all zero
NatLowZero(a, s) ==
    /\ \A j \in 1..(s \div 15) : Limb(a, j) = 0
    /\ Limb(a, (s \div 15) + 1) % 2^(s % 15) = 0

\* floor(a / 2^s)
NatShiftRight(a, s) ==
    LET w == s \div 15
        r == s % 15
        m == Len(a) - w
    IN  IF m <= 0 THEN <<>>
        ELSE NatStrip(SubSeq([i \in 1..m |->
                                 (a[i + w] \div 2^r)
                                    + ((Limb(a, i + w + 1) % 2^r) * 2^(15 - r))],
                             1, m))

\* a * 2^s
NatShiftLeft(a, s) == NatShift(NatMulLimb(a, 2^(s % 15)), s \div 15)

\* The number of zero bits below the lowest one bit of a, for a > 0
NatTrailingZeros(a) ==
    LET j == CHOOSE j \in 1..Len(a) : a[j] # 0 /\ \A i \in 1..(j - 1) : a[i] = 0
        t == CHOOSE t \in 0..14 : a[j] % 2^(t + 1) # 0 /\ a[j] % 2^t = 0
    IN  15 * (j - 1) + t

\* a / 2^s rounded to the nearest integer, ties to even
NatRoundShift(a, s) ==
    IF s <= 0 THEN NatShiftLeft(a, -s)
    ELSE LET q  == NatShiftRight(a, s)
             up == /\ NatBit(a, s - 1) = 1
                   /\ ~NatLowZero(a, s - 1) \/ Limb(q, 1) % 2 = 1
         IN  IF up THEN NatAdd(q, <<1>>) ELSE q

(***************************************************************************)
(* Python floats (IEEE 754 binary64).                                      *)
(***************************************************************************)
\* Bits of a mantissa
MantBits == 53

\* The exponent of the smallest positive float, 2^-1074
MinExp == -1074

\* Floats are below 2^1024
MaxExp == 1024

Abs(i) == IF i < 0 THEN -i ELSE i

Max(a, b) == IF a >= b THEN a ELSE b

Min(a, b) == IF a <= b THEN a ELSE b

FZero(neg) == [kind |-> "fin", neg |-> neg, mag |-> <<>>, exp |-> 0]

FInf(neg) == [kind |-> "inf", neg |-> neg, mag |-> <<>>, exp |-> 0]

FNaN == [kind |-> "nan", neg |-> FALSE, mag |-> <<>>, exp |-> 0]

\* The exact value (-1)^neg * mag * 2^exp, written with an odd mantissa
DMake(neg, mag, exp) ==
    IF mag = <<>> THEN FZero(neg)
    ELSE LET z == NatTrailingZeros(mag)
         IN  [kind |-> "fin", neg |-> neg, mag |-> NatShiftRight(mag, z),
              exp |-> exp + z]

\* The float nearest to (-1)^neg * mag * 2^exp, ties to even: 53 bits are
\* kept, fewer below 2^-1022, and what reaches 2^1024 is an infinity
FRound(neg, mag, exp) ==
    IF mag = <<>> THEN FZero(neg)
    ELSE LET s == Max(Max(NatBitLen(mag) - MantBits, MinExp - exp), 0)
             q == NatRoundShift(mag, s)
         IN  IF NatBitLen(q) + exp + s > MaxExp THEN FInf(neg)
             ELSE DMake(neg, q, exp + s)

\* An int as a float (exact below 2^53)
FInt(i) == FRound(i < 0, NatFromInt(Abs(i)), 0)

FNeg(a) == [a EXCEPT !.neg = (a.kind # "nan") /\ ~a.neg]

FIsZero(a) == a.kind = "fin" /\ a.mag = <<>>

\* The exact sum of two finite values
DAdd(a, b) ==
    LET e  == Min(a.exp, b.exp)
        ma == NatShiftLeft(a.mag, a.exp - e)
        mb == NatShiftLeft(b.mag, b.exp - e)
        c  == NatCmp(ma, mb)
    IN  IF a.neg = b.neg THEN DMake(a.neg, NatAdd(ma, mb), e)
        ELSE IF c = 0 THEN FZero(FALSE)
        ELSE IF c > 0 THEN DMake(a.neg, NatSub(ma, mb), e)
        ELSE DMake(b.neg, NatSub(mb, ma), e)

\* The exact product of two finite values
DMul(a, b) == DMake(a.neg # b.neg, NatMul(a.mag, b.mag), a.exp + b.exp)

\* -1, 0 or 1 as a < b, a = b or a > b, for finite values
DCmp(a, b) ==
    LET d == DAdd(a, FNeg(b))
    IN  IF d.mag = <<>> THEN 0 ELSE IF d.neg THEN -1 ELSE 1

\* a + b
FAdd(a, b) ==
    IF a.kind = "nan" \/ b.kind = "nan" THEN FNaN
    ELSE IF a.kind = "inf"
    THEN IF b.kind = "inf" /\ b.neg # a.neg THEN FNaN ELSE a
    ELSE IF b.kind = "inf" THEN b
    ELSE LET d == DAdd(a, b) IN FRound(d.neg, d.mag, d.exp)

\* a - b
FSub(a, b) == FAdd(a, FNeg(b))

\* a * b
FMul(a, b) ==
    IF a.kind = "nan" \/ b.kind = "nan" THEN FNaN
    ELSE IF a.kind = "inf" \/ b.kind = "inf"
    THEN IF FIsZero(a) \/ FIsZero(b) THEN FNaN ELSE FInf(a.neg # b.neg)
    ELSE FRound(a.neg # b.neg, NatMul(a.mag, b.mag), a.exp + b.exp)

\* a / b for b # 0: the quotient of the mantissas is taken to at least 55
\* bits, with one more bit set below it when there is a remainder
FDiv(a, b) ==
    IF a.kind = "nan" \/ b.kind = "nan" THEN FNaN
    ELSE IF a.kind = "inf"
    THEN IF b.kind = "inf" THEN FNaN ELSE FInf(a.neg # b.neg)
    ELSE IF b.kind = "inf" \/ FIsZero(a) THEN FZero(a.neg # b.neg)
    ELSE LET t   == Max(0, MantBits + 2 + NatBitLen(b.mag) - NatBitLen(a.mag))
             num == NatShiftLeft(a.mag, t)
             q   == NatDiv(num, b.mag)
         IN  IF NatMul(q, b.mag) = num
             THEN FRound(a.neg # b.neg, q, a.exp - b.exp - t)
             ELSE FRound(a.neg # b.neg, NatAdd(NatShiftLeft(q, 1), <<1>>),
                         a.exp - b.exp - t - 1)

\* -1, 0 or 1 as a < b, a = b or a > b, for values that are not nan
FCmp(a, b) ==
    IF a.kind = "inf"
    THEN IF b.kind = "inf" /\ b.neg = a.neg THEN 0 ELSE IF a.neg THEN -1 ELSE 1
    ELSE IF b.kind = "inf" THEN IF b.neg THEN 1 ELSE -1
    ELSE DCmp(a, b)

\* a <= b: false when either is nan
FLeq(a, b) == a.kind # "nan" /\ b.kind # "nan" /\ FCmp(a, b) <= 0

\* a == b: false when either is nan
FEq(a, b) == a.kind # "nan" /\ b.kind # "nan" /\ FCmp(a, b) = 0

\* What round(x, d) and the format f"{x:.df}" keep of x: the sign and
\* |x| * 10^d rounded to the nearest integer, ties to even (scale = 10^d);
\* inf and nan stay what they are
RoundDecimal(x, scale) ==
    IF x.kind # "fin" THEN [kind |-> x.kind, neg |-> x.neg, units |-> <<>>]
    ELSE [kind |-> "fin", neg |-> x.neg,
          units |-> NatRoundShift(NatMul(x.mag, NatFromInt(scale)), -x.exp)]

\* A sidebar amount given in cents: the float nearest to cents / 100
FromCents(cents) == FDiv(FInt(cents), FInt(100))

\* |a|
DAbs(a) == [a EXCEPT !.neg = FALSE]

\* a * 2^k, exactly
DScale(a, k) == DMake(a.neg, a.mag, a.exp + k)

(***************************************************************************)
(* The inputs.  Amounts are given in cents.                                *)
(***************************************************************************)
MinNumTrades == 1
DefaultNumTrades == 11
MaxNumTrades == 20

\* <<commission per lot, profit per 0.01 lot, loss per 0.01 lot, target win>>
DefaultParams == <<150, 120, 100, 100>>

\* A small win target against a large net win rate: losses grow slowly
SlowParams == <<0, 10, 1, 7>>

\* Net win rate equal to net loss rate: the cumulative loss doubles
EvenParams == <<0, 1, 1, 100>>

\* The first trade alone loses exactly $600
SteepParams == <<0, 1, 1, 60000>>

\* A target of zero: every lot size is zero
ZeroTargetParams == <<150, 120, 100, 0>>

\* Commission above the gross profit per lot: net win rate -$1
NegativeRateParams == <<200, 1, 1, 100>>

\* Commission equal to the gross profit per lot, 0.01 * 100 being 1.0: net
\* win rate 0.0
ZeroRateParams == <<100, 1, 100, 100>>

\* Commission equal to the gross profit per lot, but 0.14 * 100 is
\* 14.000000000000002: net win rate 2^-49
TinyRateParams == <<1400, 14, 100, 100>>

\* Commission equal to the gross profit per lot, but 0.29 * 100 is
\* 28.999999999999996: net win rate -2^-48
TinyNegativeRateParams == <<2900, 29, 100, 100>>

\* Two losses total $600 in exact arithmetic, -599.9999999999999 in floats
EdgeParams == <<0, 14, 70, 1500>>

\* The second lot size is the float next above 0.028125
TieParams == <<0, 40, 10, 50>>

ParamChoices ==
    { DefaultParams, SlowParams, EvenParams, SteepParams, ZeroTargetParams,
      NegativeRateParams, ZeroRateParams, TinyRateParams, TinyNegativeRateParams,
      EdgeParams, TieParams }

NumTradesChoices == { MinNumTrades, DefaultNumTrades, MaxNumTrades }

\* The floats the sidebar returns for amounts given in cents
ParamsOf(c) == << FromCents(c[1]), FromCents(c[2]), FromCents(c[3]), FromCents(c[4]) >>

Plan(size, maxLoss) == [AccountSize |-> size, MaxOverallLoss |-> maxLoss]

\* The account plans, in dollars
DefaultPlans ==
    << Plan(6000, 600), Plan(15000, 1500), Plan(25000, 2500),
       Plan(50000, 5000), Plan(100000, 10000), Plan(200000, 20000) >>

RECURSIVE Reverse(_)
Reverse(s) == IF s = <<>> THEN <<>> ELSE Append(Reverse(Tail(s)), Head(s))

\* The argument of calculate_loss_support_with_last_lot
PlanChoices ==
    { DefaultPlans, Reverse(DefaultPlans), << Plan(25000, 2500), Plan(6000, 600) >> }

(***************************************************************************)
(* The formulas of the two loops, on floats.                               *)
(***************************************************************************)
\* profit_per_0_01_lot * 100 - commission_per_lot
NetWinRate(profit, commission) == FSub(FMul(profit, FInt(100)), commission)

\* loss_per_0_01_lot * 100 + commission_per_lot
NetLossRate(loss, commission) == FAdd(FMul(loss, FInt(100)), commission)

\* L_n = ((n * target_win_per_trade) - cumulative_loss) / net win rate
LotSize(k, cum, target, profit, commission) ==
    FDiv(FSub(FMul(FInt(k), target), cum), NetWinRate(profit, commission))

\* A bug: the commission is left out of the win
WinAmountGross(L, profit, commission) == FMul(FMul(profit, FInt(100)), L)

\* win_amount = net win rate * L_n
WinAmount(L, profit, commission) == FMul(NetWinRate(profit, commission), L)

\* A bug: the commission is left out of the loss
LoseAmountNoCommission(L, loss, commission) ==
    FMul(FNeg(FMul(loss, FInt(100))), L)

\* A bug: the loss is counted as a positive amount
LoseAmountUnsigned(L, loss, commission) == FMul(NetLossRate(loss, commission), L)

\* lose_amount = -(net loss rate) * L_n
LoseAmount(L, loss, commission) == FMul(FNeg(NetLossRate(loss, commission)), L)

\* cumulative_loss <= -max_loss, max_loss an int in dollars
Breached(cum, maxLoss) == FLeq(cum, FInt(-maxLoss))

\* max(losses_supported - 1, 0)
AdjustedLosses(supported) == IF supported - 1 > 0 THEN supported - 1 ELSE 0

\* range(1, 100): the loop variable stops before this value
LossLoopStop == 100

\* One row of the progressive lot size table: amounts f"{x:,.4f}" in 1/10000
\* dollar, totals f"{x:.2f}" in cents, the lot size round(L_n, 5) in 1/100000
\* lot
TradeRow(k, L, win, lose, hyp, target) ==
    [ trade |-> k,
      desired_total_profit |-> RoundDecimal(FMul(target, FInt(k)), 100),
      lot_size |-> RoundDecimal(L, 100000),
      if_win |-> RoundDecimal(win, 10000),
      cumulative_profit_if_win |-> RoundDecimal(FMul(target, FInt(k)), 100),
      if_lose |-> RoundDecimal(lose, 10000),
      cumulative_loss_if_lose |-> RoundDecimal(hyp, 10000) ]

\* One row of the adjusted loss support table: sizes in dollars, percentages
\* f"{x:,.2f}" in cents
PlanRow(plan, adjusted, lastLot) ==
    [ account_size |-> plan.AccountSize,
      max_overall_loss |-> plan.MaxOverallLoss,
      losses_supported_adjusted |-> adjusted,
      eight_percent |-> RoundDecimal(FMul(FromCents(8), FInt(plan.AccountSize)), 100),
      five_percent |-> RoundDecimal(FMul(FromCents(5), FInt(plan.AccountSize)), 100),
      thirteen_percent |->
         RoundDecimal(FMul(FromCents(13), FInt(plan.AccountSize)), 100),
      lot_size_in_last_trade |-> RoundDecimal(lastLot, 100000) ]

(***************************************************************************)
(* The state of the script.                                                *)
(***************************************************************************)
VARIABLES
    num_trades, commission_per_lot, profit_per_0_01_lot, loss_per_0_01_lot,
    target_win_per_trade,       \* the inputs
    pc,                         \* where the script is
    n, cumulative_loss, L_n, win_amount, lose_amount,
    hypothetical_cumulative_loss, data,   \* the progression loop (module level)
    plans, plan_idx, ls_n, ls_cumulative_loss, max_loss, losses_supported,
    last_trade_lot_size, ls_L_n, ls_lose_amount, adjusted_losses_supported,
    results                     \* locals of calculate_loss_support_with_last_lot

inputs ==
    << num_trades, commission_per_lot, profit_per_0_01_lot, loss_per_0_01_lot,
       target_win_per_trade, plans >>

progVars ==
    << n, cumulative_loss, L_n, win_amount, lose_amount,
       hypothetical_cumulative_loss, data >>

planVars ==
    << plan_idx, ls_n, ls_cumulative_loss, max_loss, losses_supported,
       last_trade_lot_size, ls_L_n, ls_lose_amount, adjusted_losses_supported,
       results >>

vars == << inputs, pc, progVars, planVars >>

\* 0.0
Zero == FZero(FALSE)

\* Names not yet bound by the script hold a placeholder that is never read
Init ==
    /\ \E c \in ParamChoices :
          /\ commission_per_lot = FromCents(c[1])
          /\ profit_per_0_01_lot = FromCents(c[2])
          /\ loss_per_0_01_lot = FromCents(c[3])
          /\ target_win_per_trade = FromCents(c[4])
    /\ num_trades \in NumTradesChoices
    /\ plans \in PlanChoices
    /\ pc = "progression"
    /\ n = 0
    /\ cumulative_loss = Zero
    /\ data = <<>>
    /\ L_n = Zero
    /\ win_amount = Zero
    /\ lose_amount = Zero
    /\ hypothetical_cumulative_loss = Zero
    /\ plan_idx = 0
    /\ ls_n = 0
    /\ ls_cumulative_loss = Zero
    /\ max_loss = 0
    /\ losses_supported = 0
    /\ last_trade_lot_size = Zero
    /\ ls_L_n = Zero
    /\ ls_lose_amount = Zero
    /\ adjusted_losses_supported = 0
    /\ results = <<>>

\* One iteration of the progression loop (lines 39-63)
ProgStep ==
    /\ pc = "progression"
    /\ n < num_trades
    /\ ~FIsZero(NetWinRate(profit_per_0_01_lot, commission_per_lot))
    /\ n' = n + 1
    /\ L_n' = LotSize(n', cumulative_loss, target_win_per_trade,
                       profit_per_0_01_lot, commission_per_lot)
    /\ win_amount' = WinAmount(L_n', profit_per_0_01_lot, commission_per_lot)
    /\ lose_amount' = LoseAmount(L_n', loss_per_0_01_lot, commission_per_lot)
    /\ hypothetical_cumulative_loss' = FAdd(cumulative_loss, lose_amount')
    /\ data' = Append(data, TradeRow(n', L_n', win_amount', lose_amount',
                                      hypothetical_cumulative_loss',
                                      target_win_per_trade))
    /\ cumulative_loss' = hypothetical_cumulative_loss'
    /\ UNCHANGED << inputs, pc, planVars >>

\* Line 41 when the float net win rate is 0.0: float division by zero
ProgZeroDivision ==
    /\ pc = "progression"
    /\ n < num_trades
    /\ FIsZero(NetWinRate(profit_per_0_01_lot, commission_per_lot))
    /\ n' = n + 1
    /\ pc' = "ZeroDivisionError"
    /\ UNCHANGED << inputs, cumulative_loss, L_n, win_amount, lose_amount,
                    hypothetical_cumulative_loss, data, planVars >>

\* The loop is over: the table is shown and the function is called
\* (lines 65-70, 142, 93)
CallLossSupport ==
    /\ pc = "progression"
    /\ n = num_trades
    /\ pc' = "next_plan"
    /\ results' = <<>>
    /\ UNCHANGED << inputs, progVars, plan_idx, ls_n, ls_cumulative_loss, max_loss,
                    losses_supported, last_trade_lot_size, ls_L_n, ls_lose_amount,
                    adjusted_losses_supported >>

\* A bug: the accumulators are set once, before the first plan, and not reset
PlanStartKeepsLoss ==
    /\ pc = "next_plan"
    /\ plan_idx < Len(plans)
    /\ plan_idx' = plan_idx + 1
    /\ max_loss' = plans[plan_idx + 1].MaxOverallLoss
    /\ ls_n' = 0
    /\ pc' = "loss_loop"
    /\ UNCHANGED << inputs, progVars, ls_cumulative_loss, losses_supported,
                    last_trade_lot_size, ls_L_n, ls_lose_amount,
                    adjusted_losses_supported, results >>

\* The next plan is taken, its accumulators are reset and the loss loop is
\* entered (lines 95-102); ls_n counts the trades of this plan simulated so far
PlanStart ==
    /\ pc = "next_plan"
    /\ plan_idx < Len(plans)
    /\ plan_idx' = plan_idx + 1
    /\ ls_cumulative_loss' = Zero
    /\ max_loss' = plans[plan_idx + 1].MaxOverallLoss
    /\ losses_supported' = 0
    /\ last_trade_lot_size' = Zero
    /\ ls_n' = 0
    /\ pc' = "loss_loop"
    /\ UNCHANGED << inputs, progVars, ls_L_n, ls_lose_amount,
                    adjusted_losses_supported, results >>

\* A bug: the breaching trade is counted as supported
LossStepCountsBreach ==
    /\ pc = "loss_loop"
    /\ ls_n + 1 < LossLoopStop
    /\ ls_n' = ls_n + 1
    /\ ls_L_n' = LotSize(ls_n', ls_cumulative_loss, target_win_per_trade,
                          profit_per_0_01_lot, commission_per_lot)
    /\ ls_lose_amount' = LoseAmount(ls_L_n', loss_per_0_01_lot, commission_per_lot)
    /\ ls_cumulative_loss' = FAdd(ls_cumulative_loss, ls_lose_amount')
    /\ IF Breached(ls_cumulative_loss', max_loss)
       THEN /\ losses_supported' = ls_n'
            /\ pc' = "after_loop"
            /\ UNCHANGED last_trade_lot_size
       ELSE /\ last_trade_lot_size' = ls_L_n'
            /\ pc' = "loss_loop"
            /\ UNCHANGED losses_supported
    /\ UNCHANGED << inputs, progVars, plan_idx, max_loss, adjusted_losses_supported,
                    results >>

\* A bug: the lot size is kept before the breach is tested
LossStepKeepsBreachingLot ==
    /\ pc = "loss_loop"
    /\ ls_n + 1 < LossLoopStop
    /\ ls_n' = ls_n + 1
    /\ ls_L_n' = LotSize(ls_n', ls_cumulative_loss, target_win_per_trade,
                          profit_per_0_01_lot, commission_per_lot)
    /\ ls_lose_amount' = LoseAmount(ls_L_n', loss_per_0_01_lot, commission_per_lot)
    /\ ls_cumulative_loss' = FAdd(ls_cumulative_loss, ls_lose_amount')
    /\ IF Breached(ls_cumulative_loss', max_loss)
       THEN /\ losses_supported' = ls_n' - 1
            /\ pc' = "after_loop"
            /\ last_trade_lot_size' = ls_L_n'
       ELSE /\ last_trade_lot_size' = ls_L_n'
            /\ pc' = "loss_loop"
            /\ UNCHANGED losses_supported
    /\ UNCHANGED << inputs, progVars, plan_idx, max_loss, adjusted_losses_supported,
                    results >>

\* One iteration of the loss loop (lines 102-117).  The function is called
\* only after the progression loop has divided by the same net win rate, so
\* the division of line 104 never meets a zero
LossStep ==
    /\ pc = "loss_loop"
    /\ ls_n + 1 < LossLoopStop
    /\ ls_n' = ls_n + 1
    /\ ls_L_n' = LotSize(ls_n', ls_cumulative_loss, target_win_per_trade,
                          profit_per_0_01_lot, commission_per_lot)
    /\ ls_lose_amount' = LoseAmount(ls_L_n', loss_per_0_01_lot, commission_per_lot)
    /\ ls_cumulative_loss' = FAdd(ls_cumulative_loss, ls_lose_amount')
    /\ IF Breached(ls_cumulative_loss', max_loss)
       THEN /\ losses_supported' = ls_n' - 1
            /\ pc' = "after_loop"
            /\ UNCHANGED last_trade_lot_size
       ELSE /\ last_trade_lot_size' = ls_L_n'
            /\ pc' = "loss_loop"
            /\ UNCHANGED losses_supported
    /\ UNCHANGED << inputs, progVars, plan_idx, max_loss, adjusted_losses_supported,
                    results >>

\* A change of behaviour: a loop that runs out counts its trades as supported
LossLoopExhaustedCounts ==
    /\ pc = "loss_loop"
    /\ ~(ls_n + 1 < LossLoopStop)
    /\ pc' = "after_loop"
    /\ losses_supported' = ls_n
    /\ UNCHANGED << inputs, progVars, plan_idx, ls_n, ls_cumulative_loss, max_loss,
                    last_trade_lot_size, ls_L_n, ls_lose_amount,
                    adjusted_losses_supported, results >>

\* range(1, 100) is exhausted: the loop ends without a break (line 102)
LossLoopExhausted ==
    /\ pc = "loss_loop"
    /\ ~(ls_n + 1 < LossLoopStop)
    /\ pc' = "after_loop"
    /\ UNCHANGED << inputs, progVars, planVars >>

\* The safety deduction and the plan's row (lines 119-136)
PlanFinish ==
    /\ pc = "after_loop"
    /\ adjusted_losses_supported' = AdjustedLosses(losses_supported)
    /\ results' = Append(results,
                         PlanRow(plans[plan_idx], AdjustedLosses(losses_supported),
                                 last_trade_lot_size))
    /\ pc' = "next_plan"
    /\ UNCHANGED << inputs, progVars, plan_idx, ls_n, ls_cumulative_loss, max_loss,
                    losses_supported, last_trade_lot_size, ls_L_n, ls_lose_amount >>

\* Every plan has its row: the table is returned and shown (lines 138-146)
Return ==
    /\ pc = "next_plan"
    /\ plan_idx = Len(plans)
    /\ pc' = "done"
    /\ UNCHANGED << inputs, progVars, planVars >>

Next ==
    \/ ProgStep
    \/ ProgZeroDivision
    \/ CallLossSupport
    \/ PlanStart
    \/ LossStep
    \/ LossLoopExhausted
    \/ PlanFinish
    \/ Return

Spec == Init /\ [][Next]_vars

(***************************************************************************)
(* The two loops as functions of the inputs, for stating the properties.   *)
(***************************************************************************)
\* One trade of an all-losing run that carries cum into trade k, under the
\* parameters p = <<commission, profit, loss, target>>: its lot size, its
\* loss and the cumulative loss it leaves
LossTrade(k, cum, p) ==
    LET L    == LotSize(k, cum, p[4], p[2], p[1])
        lose == LoseAmount(L, p[3], p[1])
    IN  [lot |-> L, lose |-> lose, cum |-> FAdd(cum, lose)]

\* Trades k .. last of an all-losing run that carries cum into trade k and
\* never stops, computed half by half
RECURSIVE LossPath(_, _, _, _)
LossPath(k, cum, last, p) ==
    IF k > last THEN <<>>
    ELSE IF k = last THEN <<LossTrade(k, cum, p)>>
    ELSE LET mid   == (k + last) \div 2
             first == LossPath(k, cum, mid, p)
         IN  first \o LossPath(mid + 1, first[Len(first)].cum, last, p)

\* Iterations k .. last of the loss loop of one plan run on its own, from the
\* loop state st, computed half by half
RECURSIVE SupportRange(_, _, _, _, _)
SupportRange(st, k, last, maxLoss, p) ==
    IF st.broke \/ k > last THEN st
    ELSE IF k = last
    THEN LET t == LossTrade(k, st.cum, p)
         IN  IF Breached(t.cum, maxLoss)
             THEN [st EXCEPT !.cum = t.cum, !.supported = k - 1, !.broke = TRUE]
             ELSE [st EXCEPT !.cum = t.cum, !.last = t.lot]
    ELSE LET mid == (k + last) \div 2
         IN  SupportRange(SupportRange(st, k, mid, maxLoss, p), mid + 1, last,
                          maxLoss, p)

\* The row of one plan analysed on its own
LossSupport(plan, p) ==
    LET r == SupportRange([cum |-> Zero, last |-> Zero, supported |-> 0, broke |-> FALSE],
                          1, LossLoopStop - 1, plan.MaxOverallLoss, p)
    IN  PlanRow(plan, AdjustedLosses(r.supported), r.last)

\* The parameters of the run
Params ==
    << commission_per_lot, profit_per_0_01_lot, loss_per_0_01_lot,
       target_win_per_trade >>

WinRate == NetWinRate(profit_per_0_01_lot, commission_per_lot)

PositiveWinRate == FCmp(WinRate, Zero) > 0

DefaultInputs == Params = ParamsOf(DefaultParams)

Finite(a) == a.kind = "fin"

\* The row of the current plan has just been appended
PlanDone == pc = "next_plan" /\ plan_idx >= 1

\* The loss loop of the current plan ended on its break
PlanBreached == Breached(ls_cumulative_loss, max_loss)

\* The decimal d as a plain integer of units
DecimalToInt(d) == IF d.neg THEN -NatToInt(d.units) ELSE NatToInt(d.units)

(***************************************************************************)
(* Properties.                                                             *)
(***************************************************************************)
\* win + cum = k * target, in exact arithmetic on the floats
RecoversExactly(win, cum, k) ==
    /\ Finite(win)
    /\ Finite(cum)
    /\ DCmp(DAdd(win, cum), DMul(FInt(k), target_win_per_trade)) = 0

\* |win + cum - k * target| <= 2^-50 * (|cum| + k * target), in exact
\* arithmetic on the floats, unless they have overflowed: the rounding error
\* of the four float operations that lead from cum to win
RecoversWithinRounding(win, cum, k) ==
    (Finite(win) /\ Finite(cum)) =>
       LET goal == DMul(FInt(k), target_win_per_trade)
           err  == DAdd(DAdd(win, cum), FNeg(goal))
       IN  DCmp(DScale(DAbs(err), 50), DAdd(DAbs(cum), DAbs(goal))) <= 0

\* The win amount of the trade of the loss loop whose lot size is L
LossLoopWin(L) == WinAmount(L, profit_per_0_01_lot, commission_per_lot)

\* C1 as stated: with a positive net win rate, a win at trade n on top of the
\* loss carried into it totals exactly n * target, at every step of the
\* progression loop and of the loss loop.
C1_WinRecoversToTarget ==
    [][ PositiveWinRate =>
           /\ (pc = "progression" /\ n' = n + 1)
                 => RecoversExactly(win_amount', cumulative_loss, n')
           /\ (pc = "loss_loop" /\ ls_n' = ls_n + 1)
                 => RecoversExactly(LossLoopWin(ls_L_n'), ls_cumulative_loss, ls_n') ]_vars

\* C1 as amended: with a positive net win rate, and as long as the floats
\* have not overflowed, a win at trade n on top of the loss C carried into it
\* totals n * target within rounding error, |winAmount + C - n * target| <=
\* 2^-50 * (|C| + n * target), at every step of the progression loop and of
\* the loss loop.
C1_WinRecoversWithinRounding ==
    [][ PositiveWinRate =>
           /\ (pc = "progression" /\ n' = n + 1)
                 => RecoversWithinRounding(win_amount', cumulative_loss, n')
           /\ (pc = "loss_loop" /\ ls_n' = ls_n + 1)
                 => RecoversWithinRounding(LossLoopWin(ls_L_n'), ls_cumulative_loss,
                                           ls_n') ]_vars

\* Trade 12 of the default run: the win on top of the loss of eleven trades
\* is 11.999999999999773
C1_Witness ==
    /\ PositiveWinRate
    /\ DefaultInputs
    /\ pc = "progression"
    /\ n = 12
    /\ Finite(win_amount)
    /\ LET carried == LossPath(1, Zero, 11, Params)[11].cum
       IN  /\ ~FIsZero(carried)
           /\ Finite(carried)
           /\ ~RecoversExactly(win_amount, carried, 12)
           /\ RecoversWithinRounding(win_amount, carried, 12)

\* C2: a plan whose loop breaks has stopped at the first trade n whose
\* cumulative loss is at or below -maxOverallLoss: n trades were simulated and
\* no more, lossesSupported is n - 1 and the row reports max(n - 2, 0).
C2_HaltsAtFirstBreach ==
    (PlanDone /\ PlanBreached) =>
       LET path == LossPath(1, Zero, ls_n, Params)
       IN  /\ path[ls_n].cum = ls_cumulative_loss
           /\ \A m \in 1..(ls_n - 1) : ~Breached(path[m].cum, max_loss)
           /\ losses_supported = ls_n - 1
           /\ adjusted_losses_supported = Max(ls_n - 2, 0)
           /\ results[plan_idx].losses_supported_adjusted = Max(ls_n - 2, 0)

C2_Witness ==
    /\ PlanDone
    /\ PlanBreached
    /\ DefaultInputs
    /\ max_loss = 600
    /\ ls_n = 10
    /\ results[plan_idx].losses_supported_adjusted = 8

\* C3: the adjusted losses supported never decrease as maxOverallLoss grows.
C3_MonotoneInMaxLoss ==
    \A i, j \in 1..Len(results) :
       results[i].max_overall_loss <= results[j].max_overall_loss
          => results[i].losses_supported_adjusted <= results[j].losses_supported_adjusted

\* C4: a net win rate of zero or below is rejected before any trade is
\* computed: no lot size is derived from it and no row is produced.
C4_NonPositiveRateRejected ==
    FLeq(WinRate, Zero) =>
       /\ data = <<>>
       /\ results = <<>>
       /\ L_n = Zero
       /\ pc \in {"progression", "ZeroDivisionError"}

\* C5: the loss loop covers trades 1 .. 100, so a breach that comes first at
\* trade 100 is detected: a loop that ends without a break has simulated 100
\* trades, and the 100th did not breach.
C5_BreachAtHundredDetected ==
    (pc = "after_loop" /\ ~PlanBreached
        /\ Breached(LossTrade(LossLoopStop, ls_cumulative_loss, Params).cum,
                    max_loss))
       => ls_n = LossLoopStop

\* C6: the progression starts from a cumulative loss of 0 and appends one
\* record per trade, numbered 1, 2, .. in order and num_trades of them in the
\* end; the record of trade i is computed from the cumulative loss left by
\* trade i - 1, its loss is -(loss * 100 + commission) * its lot size and its
\* cumulative loss is the previous one plus that loss.
C6_ProgressionRecords ==
    /\ (pc = "progression" /\ n = 0) => (data = <<>> /\ cumulative_loss = Zero)
    /\ pc = "progression" =>
          /\ Len(data) = n
          /\ n <= num_trades
          /\ \A i \in 1..n : data[i].trade = i
    /\ pc \in {"next_plan", "loss_loop", "after_loop", "done"} => Len(data) = num_trades
    /\ (pc = "progression" /\ n >= 1) =>
          LET path == LossPath(1, Zero, n, Params)
              prev(i) == IF i = 1 THEN Zero ELSE path[i - 1].cum
              rate    == FNeg(FAdd(FMul(loss_per_0_01_lot, FInt(100)),
                                   commission_per_lot))
              lose(i) == FMul(rate, path[i].lot)
          IN  /\ lose_amount = lose(n)
              /\ hypothetical_cumulative_loss = FAdd(prev(n), lose_amount)
              /\ cumulative_loss = hypothetical_cumulative_loss
              /\ L_n = LotSize(n, prev(n), target_win_per_trade,
                               profit_per_0_01_lot, commission_per_lot)
              /\ n = num_trades =>
                    \A i \in 1..n :
                       /\ data[i].lot_size = RoundDecimal(path[i].lot, 100000)
                       /\ data[i].if_lose = RoundDecimal(lose(i), 10000)
                       /\ data[i].cumulative_loss_if_lose
                             = RoundDecimal(FAdd(prev(i), lose(i)), 10000)

C6_Witness ==
    /\ pc = "next_plan"
    /\ DefaultInputs
    /\ num_trades = MaxNumTrades
    /\ Len(data) = MaxNumTrades
    /\ data[MaxNumTrades].trade = MaxNumTrades
    /\ data[2].cumulative_loss_if_lose # data[1].cumulative_loss_if_lose

\* C7: under the default parameters the lot size never decreases from one
\* trade of an all-losing run to the next, and the cumulative loss is never
\* positive and never increases.
C7_DefaultLotsGrow ==
    [][ DefaultInputs =>
           /\ (pc = "progression" /\ n' = n + 1) =>
                 /\ n >= 1 => FLeq(L_n, L_n')
                 /\ FLeq(cumulative_loss', cumulative_loss)
                 /\ FLeq(cumulative_loss', Zero)
           /\ (pc = "loss_loop" /\ ls_n' = ls_n + 1) =>
                 /\ ls_n >= 1 => FLeq(ls_L_n, ls_L_n')
                 /\ FLeq(ls_cumulative_loss', ls_cumulative_loss)
                 /\ FLeq(ls_cumulative_loss', Zero) ]_vars

C7_Witness ==
    /\ DefaultInputs
    /\ pc = "progression"
    /\ n = MaxNumTrades
    /\ FCmp(L_n, FInt(1)) > 0
    /\ FCmp(cumulative_loss, Zero) < 0

\* C8: the table has one row per plan, in the order of the plans, and the row
\* a plan gets is the one it gets when analysed alone from zeroed accumulators.
C8_RowPerPlanIndependent ==
    /\ pc \in {"next_plan", "done"} => Len(results) = plan_idx
    /\ pc \in {"loss_loop", "after_loop"} => Len(results) = plan_idx - 1
    /\ pc = "done" => Len(results) = Len(plans)
    /\ \A i \in 1..Len(results) :
          /\ results[i].account_size = plans[i].AccountSize
          /\ results[i].max_overall_loss = plans[i].MaxOverallLoss
    /\ PlanDone => results[plan_idx] = LossSupport(plans[plan_idx], Params)

C8_Witness ==
    /\ pc = "done"
    /\ plans = Reverse(DefaultPlans)
    /\ Len(results) = Len(plans)
    /\ ~FIsZero(cumulative_loss)
    /\ results[1].losses_supported_adjusted > results[2].losses_supported_adjusted
    /\ results[2].losses_supported_adjusted > 0

\* C9: a plan whose loop runs out without a breach keeps lossesSupported at 0,
\* reports 0 adjusted losses, and keeps the lot size of the last trade
\* simulated.
C9_NoBreachReportsZero ==
    (PlanDone /\ ~PlanBreached) =>
       /\ ls_n = LossLoopStop - 1
       /\ losses_supported = 0
       /\ adjusted_losses_supported = 0
       /\ results[plan_idx].losses_supported_adjusted = 0
       /\ last_trade_lot_size = LossPath(1, Zero, ls_n, Params)[ls_n].lot
       /\ results[plan_idx].lot_size_in_last_trade = RoundDecimal(ls_L_n, 100000)

C9_Witness ==
    /\ PlanDone
    /\ ~PlanBreached
    /\ ~FIsZero(target_win_per_trade)
    /\ PositiveWinRate
    /\ FCmp(last_trade_lot_size, Zero) > 0
    /\ plan_idx >= 2
    /\ results[plan_idx - 1].losses_supported_adjusted > 0

\* C10: a plan whose loop breaks at trade n keeps the lot size of trade n - 1
\* (0 when n = 1): the trade numbered lossesSupported, not the breaching trade
\* and not the trade numbered by the adjusted count.
C10_LastLotIsTradeBeforeBreach ==
    (PlanDone /\ PlanBreached) =>
       LET path == LossPath(1, Zero, ls_n, Params)
           kept == IF ls_n = 1 THEN Zero ELSE path[ls_n - 1].lot
       IN  /\ losses_supported = ls_n - 1
           /\ last_trade_lot_size = kept
           /\ results[plan_idx].lot_size_in_last_trade = RoundDecimal(kept, 100000)
           /\ ls_n >= 2 => last_trade_lot_size # path[ls_n].lot
           /\ adjusted_losses_supported >= 1 =>
                 last_trade_lot_size # path[adjusted_losses_supported].lot

C10_Witness ==
    /\ PlanDone
    /\ PlanBreached
    /\ DefaultInputs
    /\ ls_n = 10
    /\ losses_supported = 9
    /\ adjusted_losses_supported = 8
    /\ DecimalToInt(results[plan_idx].lot_size_in_last_trade) = 257165

\* C10 at the edge: the very first trade breaches and the lot size kept is 0
C10_FirstTradeBreach ==
    /\ PlanDone
    /\ PlanBreached
    /\ ls_n = 1
    /\ last_trade_lot_size = Zero

====
